---- MODULE Spec2Model ----
(***************************************************************************)
(* A model of openllm.LLM (src/src/openllm/_llm.py): construction, the     *)
(* lazily resolved and memoized artifact / model / tokenizer accessors,    *)
(* the reserved attribute namespace, to_runner, the accessors as two       *)
(* threads run them, and ChatGLM (models/chatglm/modeling_chatglm.py).     *)
(*                                                                         *)
(* Python values are modelled as follows.                                  *)
(*   - None is the empty tuple <<>>, a present value v is <<v>>.           *)
(*   - A str that the code slices (a keyword name) is a tuple of tokens,   *)
(*     the prefix "_tokenizer_" being one token, so that startswith and    *)
(*     k[len("_tokenizer_"):] are computed, not assumed.                   *)
(*   - A dict is a function from its keys to its values.                   *)
(*   - A raised exception is the name of its class; "ok" is a return.      *)
(***************************************************************************)
EXTENDS Naturals, Sequences, FiniteSets, TLC

VARIABLES
    constructed,        \* "no" | "yes" | "failed": has LLM.__init__ run, and did it raise
    cls,                \* the LLM subclass of the handle (class-level attributes)
    self_pretrained,    \* self._pretrained
    self_args,          \* self._args
    self_kwargs,        \* self._kwargs
    self_bentomodel,    \* self.__bentomodel__
    self_llm_model,     \* self.__llm_model__
    self_llm_tokenizer, \* self.__llm_tokenizer__
    self_dict,          \* the other instance attributes (set through __setattr__)
    store,              \* the bentoml model store: a set of saved artifacts
    caller_models,      \* the list object a caller passes to to_runner as `models`
    resolutions,        \* log: one entry per run of the body of _bentomodel (a store lookup)
    imports,            \* log: one entry per call of import_model (default or override)
    loads,              \* log: one entry per call of bentoml.Model.load_model
    init_kwargs,        \* history: the keyword arguments as given to __init__
    last,               \* the last call on the handle and how it ended
    ncalls,             \* number of calls made on the handle
    threads             \* per thread: where it stands in _bentomodel / model, and its locals

vars == <<constructed, cls, self_pretrained, self_args, self_kwargs, self_bentomodel,
          self_llm_model, self_llm_tokenizer, self_dict, store, caller_models,
          resolutions, imports, loads, init_kwargs, last, ncalls, threads>>

\* Bound on the number of calls made on one handle.
MaxCalls == 3

-----------------------------------------------------------------------------
\* Python values

None == <<>>
Some(v) == <<v>>
Val(o) == o[1]

EmptyDict == <<>>

\* {**a, **b}: the entries of b win.
DictMerge(a, b) == [k \in (DOMAIN a) \cup (DOMAIN b) |-> IF k \in DOMAIN b THEN b[k] ELSE a[k]]

\* d without key k (what is left of d after d.pop(k, ...)).
DictWithout(d, k) == [j \in (DOMAIN d) \ {k} |-> d[j]]

\* d.pop(k, default): the value popped.
DictPopValue(d, k, default) == IF k \in DOMAIN d THEN d[k] ELSE default

\* Keyword names, as token tuples.
TokenizerPrefix == "_tokenizer_"
K_trust_remote_code == <<"trust_remote_code">>
K_revision == <<"revision">>
K_tokenizer_revision == <<TokenizerPrefix, "revision">>
K_device_map == <<"device_map">>
K_tokenizer_padding_side == <<TokenizerPrefix, "padding_side">>

\* k.startswith("_tokenizer_")
StartsWithTokenizer(k) == Len(k) >= 1 /\ k[1] = TokenizerPrefix

\* k[len("_tokenizer_"):]
StripTokenizer(k) == Tail(k)

-----------------------------------------------------------------------------
\* The LLM subclasses a handle may be an instance of: their class-level
\* attributes (LLMInterface, lines 159-190) and what their config class declares.

ClassImportKwargs ==
    (K_revision :> "cls_rev") @@ (K_tokenizer_revision :> "cls_tok_rev") @@
    (K_device_map :> "cls_auto") @@ (K_tokenizer_padding_side :> "cls_left")

Classes ==
    { [name |-> "Plain", default_model |-> Some("fam/default"), import_kwargs |-> None,
       has_import_model |-> FALSE, trust_remote_code |-> FALSE, implementation |-> "pt"],
      [name |-> "NoDefault", default_model |-> None, import_kwargs |-> None,
       has_import_model |-> FALSE, trust_remote_code |-> FALSE, implementation |-> "pt"],
      [name |-> "WithImportKwargs", default_model |-> Some("fam/default"),
       import_kwargs |-> Some(ClassImportKwargs),
       has_import_model |-> FALSE, trust_remote_code |-> TRUE, implementation |-> "tf"],
      [name |-> "Custom", default_model |-> Some("fam/default"), import_kwargs |-> None,
       has_import_model |-> TRUE, trust_remote_code |-> TRUE, implementation |-> "pt"],
      [name |-> "CustomWithImportKwargs", default_model |-> Some("fam/default"),
       import_kwargs |-> Some(ClassImportKwargs),
       has_import_model |-> TRUE, trust_remote_code |-> FALSE, implementation |-> "flax"],
      \* models/chatglm/modeling_chatglm.py, lines 42-63: ChatGLM(openllm.LLM, _internal=True)
      [name |-> "ChatGLM", default_model |-> Some("THUDM/chatglm-6b-int4"),
       import_kwargs |-> None,
       has_import_model |-> TRUE, trust_remote_code |-> TRUE, implementation |-> "pt"] }

\* Arguments a caller may construct a handle with.
PretrainedArgs == {None, Some(""), Some("org/model-a")}
EnvValues == {None, Some(""), Some("env/model-b")}
PositionalArgs == {<<>>, <<"arg1">>}

\* **kwargs: any of trust_remote_code, revision, _tokenizer_revision.
KeywordArgs ==
    { DictMerge(DictMerge(t, r), k) :
        t \in {EmptyDict, K_trust_remote_code :> TRUE, K_trust_remote_code :> FALSE},
        r \in {EmptyDict, K_revision :> "rev"},
        k \in {EmptyDict, K_tokenizer_revision :> "tok_rev"} }

-----------------------------------------------------------------------------
\* LLM.__init__

\* Python truthiness of an optional str: `if not pretrained`, `assert self.default_model`.
Truthy(o) == o # None /\ Val(o) # ""

\* A variant that tests the argument for truth, as the environment value is tested.
ResolvePretrained_falsy(pretrained, env, default_model) ==
    IF Truthy(pretrained)
    THEN [exc |-> "ok", value |-> Val(pretrained)]
    ELSE IF Truthy(env)
         THEN [exc |-> "ok", value |-> Val(env)]
         ELSE IF Truthy(default_model)
              THEN [exc |-> "ok", value |-> Val(default_model)]
              ELSE [exc |-> "AssertionError", value |-> ""]

\* Lines 323-327: the pretrained name stored, or the AssertionError.
\* `env` is os.environ.get("OPENLLM_<MODEL_NAME>_PRETRAINED", None).
ResolvePretrained(pretrained, env, default_model) ==
    IF pretrained # None
    THEN [exc |-> "ok", value |-> Val(pretrained)]
    ELSE IF Truthy(env)
         THEN [exc |-> "ok", value |-> Val(env)]
         ELSE IF Truthy(default_model)
              THEN [exc |-> "ok", value |-> Val(default_model)]
              ELSE [exc |-> "AssertionError", value |-> ""]

\* The threads that may call the accessors of one handle.
Threads == {"t1", "t2"}

\* A thread outside any accessor: its position, the accessor it called, the locals
\* of _bentomodel and model, and how its last call ended. `raced_artifact` and
\* `raced_model` record that the thread passed the `is None` test of line 337 or
\* 394 while another thread was between that test and its assignment.
IdleThread ==
    [pc |-> "idle", op |-> "none", trust_remote_code |-> FALSE, tag |-> None,
     ia |-> None, artifact |-> None, model |-> None, exc |-> "ok", returned |-> None,
     raced_artifact |-> FALSE, raced_model |-> FALSE, nloaded |-> 0]

Init ==
    /\ constructed = "no"
    /\ cls \in Classes
    /\ self_pretrained = ""
    /\ self_args = <<>>
    /\ self_kwargs = EmptyDict
    /\ self_bentomodel = None
    /\ self_llm_model = None
    /\ self_llm_tokenizer = None
    /\ self_dict = EmptyDict
    /\ store = {}
    /\ caller_models = <<>>
    /\ resolutions = <<>>
    /\ imports = <<>>
    /\ loads = <<>>
    /\ init_kwargs = EmptyDict
    /\ last = [op |-> "none", exc |-> "ok"]
    /\ ncalls = 0
    /\ threads = [t \in Threads |-> IdleThread]

\* LLM.__init__(pretrained, llm_config, *args, **kwargs), lines 250-333. `kwargs`
\* are the keyword arguments left once the config class has taken its own.
LLM_init(pretrained, env, args, kwargs) ==
    /\ constructed = "no"
    /\ LET r == ResolvePretrained(pretrained, env, cls.default_model) IN
       /\ last' = [op |-> "__init__", exc |-> r.exc, pretrained |-> pretrained, env |-> env]
       /\ IF r.exc = "ok"
          THEN /\ constructed' = "yes"
               /\ self_pretrained' = r.value
               /\ self_args' = args
               /\ self_kwargs' = kwargs
               /\ init_kwargs' = kwargs
          ELSE /\ constructed' = "failed"
               /\ UNCHANGED <<self_pretrained, self_args, self_kwargs, init_kwargs>>
    /\ UNCHANGED <<threads, cls, self_bentomodel, self_llm_model, self_llm_tokenizer,
                   self_dict,
                   store, caller_models, resolutions, imports, loads, ncalls>>

\* Construction as the lifecycle specification sees it: a handle named explicitly.
Construct ==
    \E pretrained \in {Some("org/model-a")}, args \in PositionalArgs,
       kwargs \in KeywordArgs :
        LLM_init(pretrained, None, args, kwargs)

\* Construction as the runner specification sees it: no extra arguments.
ConstructPlain == LLM_init(Some("org/model-a"), None, <<>>, EmptyDict)

\* Construction over every combination of argument, environment and default.
ConstructAny ==
    \E pretrained \in PretrainedArgs, env \in EnvValues, args \in PositionalArgs,
       kwargs \in KeywordArgs :
        LLM_init(pretrained, env, args, kwargs)

-----------------------------------------------------------------------------
\* The model store and the import step

\* openllm.utils.generate_tags(model_name, prefix=, trust_remote_code=, **attrs):
\* the tag is a function of the name, the implementation prefix, the trust flag
\* and the keyword parameters, and the keyword parameters come back as kwds.
generate_tags(model_name, prefix, trust_remote_code, attrs) ==
    [tag |-> [name |-> model_name, prefix |-> prefix,
              trust_remote_code |-> trust_remote_code, attrs |-> attrs],
     kwds |-> attrs]

\* Line 343 (and 348-350): {k[len("_tokenizer_"):]: v for k, v in d.items() if k.startswith("_tokenizer_")}
tokenizer_scoped(d) ==
    [k \in {StripTokenizer(j) : j \in {j \in DOMAIN d : StartsWithTokenizer(j)}}
        |-> d[<<TokenizerPrefix>> \o k]]

\* Line 344 (and 354): {k: v for k, v in d.items() if not k.startswith("_tokenizer_")}
model_scoped(d) == [k \in {j \in DOMAIN d : ~StartsWithTokenizer(j)} |-> d[k]]

\* Lines 346-352: the class-level import_kwargs are defaults under the tokenizer kwds.
merge_tokenizer_kwds(import_kwargs, tokenizer_kwds) ==
    DictMerge(tokenizer_scoped(import_kwargs), tokenizer_kwds)

\* A variant in which the class-level import_kwargs override the caller's kwds.
merge_kwds_class_wins(import_kwargs, kwds) ==
    DictMerge(kwds, model_scoped(import_kwargs))

\* Lines 353-356: the class-level import_kwargs are defaults under the model kwds.
merge_kwds(import_kwargs, kwds) ==
    DictMerge(model_scoped(import_kwargs), kwds)

\* Lines 343-356: what _bentomodel hands to the import step.
import_arguments(kwds, import_kwargs) ==
    LET tokenizer_kwds == tokenizer_scoped(kwds)
        model_kwds == model_scoped(kwds)
    IN  IF import_kwargs # None /\ Val(import_kwargs) # EmptyDict
        THEN [tokenizer_kwds |-> merge_tokenizer_kwds(Val(import_kwargs), tokenizer_kwds),
              kwds |-> merge_kwds(Val(import_kwargs), model_kwds)]
        ELSE [tokenizer_kwds |-> tokenizer_kwds, kwds |-> model_kwds]

\* bentoml.transformers.get(tag): the artifacts saved under the tag (none: BentoMLException).
store_get(tag) == {a \in store : a.tag = tag}

\* What the environment lets an import do: save with a tokenizer, save without one
\* (only a subclass override can neglect the custom object), or raise.
ImportOutcomes == {"ok", "ok_no_tokenizer", "raise"}

\* The outcomes that matter to the next evaluation of _bentomodel.
ImportChoices ==
    IF self_bentomodel # None THEN {"ok"}
    ELSE IF cls.has_import_model THEN ImportOutcomes ELSE {"ok", "raise"}

\* A variant that runs the body on every access.
bentomodel_always_unset == TRUE

\* Line 337: the body of the property runs only while nothing is cached.
bentomodel_is_unset == self_bentomodel = None

\* A variant that imports after every lookup.
lookup_always_missed(found) == TRUE

\* Line 360: the import branch is the handler of the lookup's BentoMLException.
lookup_missed(found) == found = {}

\* ChatGLM.import_model(self, pretrained, tag, *model_args, tokenizer_kwds, **kwds),
\* lines 52-63 of models/chatglm/modeling_chatglm.py. `kwds` is every keyword of the
\* call but tokenizer_kwds; the body calls
\* AutoModel.from_pretrained(pretrained, trust_remote_code=True, **kwds), which is a
\* TypeError when kwds has a trust_remote_code entry of its own, and drops model_args.
ChatGLM_import_model(pretrained, tag, model_args, tokenizer_kwds, kwds, io) ==
    LET exc == IF K_trust_remote_code \in DOMAIN kwds THEN "TypeError"
               ELSE IF io = "raise" THEN "BackendError" ELSE "ok"
    IN  [exc |-> exc,
         saved |-> IF exc = "ok" THEN {[tag |-> tag, custom_objects |-> {"tokenizer"}]}
                   ELSE {}]

\* Lines 364-384: the call of the import step and what it returns or raises.
\* The module-level import_model (lines 73-80) takes __openllm_framework__ as its
\* third positional parameter, so a non-empty *self._args binds it a second time.
\* An override gets trust_remote_code= (line 371) among its **kwds.
call_import(tag, trust_remote_code, ia, io) ==
    LET fn == IF cls.has_import_model THEN "self.import_model" ELSE "import_model"
        override_kwds == DictMerge(ia.kwds, K_trust_remote_code :> trust_remote_code)
        chatglm == ChatGLM_import_model(self_pretrained, tag, self_args, ia.tokenizer_kwds,
                                        override_kwds, io)
        exc == IF cls.name = "ChatGLM" THEN chatglm.exc
               ELSE IF fn = "import_model" /\ self_args # <<>> THEN "TypeError"
               ELSE IF io = "raise" THEN "BackendError" ELSE "ok"
        custom_objects == IF fn = "self.import_model" /\ io = "ok_no_tokenizer"
                          THEN {} ELSE {"tokenizer"}
    IN  [fn |-> fn, pretrained |-> self_pretrained, tag |-> tag, args |-> self_args,
         tokenizer_kwds |-> ia.tokenizer_kwds, trust_remote_code |-> trust_remote_code,
         kwds |-> ia.kwds, backend |-> io, exc |-> exc,
         saved |-> IF cls.name = "ChatGLM" THEN chatglm.saved
                   ELSE IF exc = "ok" THEN {[tag |-> tag, custom_objects |-> custom_objects]}
                   ELSE {}]

\* Lines 338-384: one run of the body of the property, entered with nothing cached.
bentomodel_run(io) ==
    LET trust_remote_code ==
            DictPopValue(self_kwargs, K_trust_remote_code, cls.trust_remote_code)
        kwargs_left == DictWithout(self_kwargs, K_trust_remote_code)
        gt == generate_tags(self_pretrained, cls.implementation, trust_remote_code,
                            kwargs_left)
        ia == import_arguments(gt.kwds, cls.import_kwargs)
        found == store_get(gt.tag)
        imp == call_import(gt.tag, trust_remote_code, ia, io)
        missed == lookup_missed(found)
        exc == IF missed THEN imp.exc ELSE "ok"
        got == IF missed THEN imp.saved ELSE found
        cached == IF exc = "ok" /\ got # {} THEN Some(CHOOSE a \in got : TRUE) ELSE None
        run == [pretrained |-> self_pretrained, prefix |-> cls.implementation,
                trust_remote_code |-> trust_remote_code, attrs |-> kwargs_left,
                tag |-> gt.tag, hit |-> found # {}, found |-> found,
                imported |-> missed, saved |-> IF missed THEN imp.saved ELSE {},
                exc |-> exc, cached |-> cached]
    IN  [exc |-> exc,
         value |-> cached,
         self_bentomodel |-> cached,
         self_kwargs |-> kwargs_left,
         resolutions |-> Append(resolutions, run),
         imports |-> IF missed THEN Append(imports, imp) ELSE imports,
         store |-> IF missed THEN store \cup imp.saved ELSE store]

\* A variant that remembers a failed run and raises it again without a new run.
bentomodel_failure_sticky(io) ==
    IF ~bentomodel_is_unset
    THEN [exc |-> "ok", value |-> self_bentomodel, self_bentomodel |-> self_bentomodel,
          self_kwargs |-> self_kwargs, resolutions |-> resolutions, imports |-> imports,
          store |-> store]
    ELSE IF resolutions # <<>>
         THEN [exc |-> resolutions[1].exc, value |-> None, self_bentomodel |-> None,
               self_kwargs |-> self_kwargs, resolutions |-> resolutions,
               imports |-> imports, store |-> store]
         ELSE bentomodel_run(io)

\* The property LLM._bentomodel, lines 335-385: the exception or the artifact it
\* returns, and every field, log and store content it leaves behind.
bentomodel(io) ==
    IF bentomodel_is_unset
    THEN bentomodel_run(io)
    ELSE [exc |-> "ok", value |-> self_bentomodel, self_bentomodel |-> self_bentomodel,
          self_kwargs |-> self_kwargs, resolutions |-> resolutions, imports |-> imports,
          store |-> store]

\* A call on a live handle, within the bound on calls.
CanCall == constructed = "yes" /\ ncalls < MaxCalls

\* Every field of the instance.
Fields ==
    [pretrained |-> self_pretrained, args |-> self_args, kwargs |-> self_kwargs,
     bentomodel |-> self_bentomodel, llm_model |-> self_llm_model,
     llm_tokenizer |-> self_llm_tokenizer, dict |-> self_dict]

\* Reading the property _bentomodel (the artifact accessor).
get_bentomodel(io) ==
    /\ CanCall
    /\ LET r == bentomodel(io) IN
       /\ self_bentomodel' = r.self_bentomodel
       /\ self_kwargs' = r.self_kwargs
       /\ resolutions' = r.resolutions
       /\ imports' = r.imports
       /\ store' = r.store
       /\ last' = [op |-> "_bentomodel", exc |-> r.exc, value |-> r.value]
    /\ ncalls' = ncalls + 1
    /\ UNCHANGED <<threads, constructed, cls, self_pretrained, self_args, self_llm_model,
                   self_llm_tokenizer, self_dict, caller_models, loads, init_kwargs>>

\* The property tag, lines 387-389: self._bentomodel.tag.
get_tag(io) ==
    /\ CanCall
    /\ LET r == bentomodel(io) IN
       /\ self_bentomodel' = r.self_bentomodel
       /\ self_kwargs' = r.self_kwargs
       /\ resolutions' = r.resolutions
       /\ imports' = r.imports
       /\ store' = r.store
       /\ last' = [op |-> "tag", exc |-> r.exc,
                   value |-> IF r.exc = "ok" THEN Some(Val(r.value).tag) ELSE None]
    /\ ncalls' = ncalls + 1
    /\ UNCHANGED <<threads, constructed, cls, self_pretrained, self_args, self_llm_model,
                   self_llm_tokenizer, self_dict, caller_models, loads, init_kwargs>>

\* What the environment lets bentoml.Model.load_model do.
LoadOutcomes == {"ok", "raise"}

\* The outcomes that matter to the next evaluation of model.
LoadChoices == IF self_llm_model # None THEN {"ok"} ELSE LoadOutcomes

\* A variant that loads on every access.
model_always_unset == TRUE

\* Line 394: the model is loaded only while none is cached.
model_is_unset == self_llm_model = None

\* Line 396: the arguments of load_model, read after self._bentomodel has run.
load_arguments(args, kwargs) == [args |-> args, kwargs |-> kwargs]

\* Line 396 onwards, given the outcome r of evaluating self._bentomodel.
model_load(r, lo) ==
    LET la == load_arguments(self_args, r.self_kwargs)
        call == [artifact |-> r.value, args |-> la.args, kwargs |-> la.kwargs]
        exc == IF r.exc # "ok" THEN r.exc
               ELSE IF lo = "raise" THEN "LoadError" ELSE "ok"
        loaded == IF exc = "ok" THEN Some([loaded |-> call]) ELSE None
    IN  [exc |-> exc, value |-> loaded, lo |-> IF r.exc = "ok" THEN lo ELSE "none",
         self_bentomodel |-> r.self_bentomodel, self_kwargs |-> r.self_kwargs,
         resolutions |-> r.resolutions, imports |-> r.imports, store |-> r.store,
         loads |-> IF r.exc = "ok" THEN Append(loads, call) ELSE loads,
         self_llm_model |-> loaded]

\* Lines 392-397, the body of the property model: the exception or the model it
\* returns, and every field, log and store content it leaves behind.
model_get(io, lo) ==
    IF ~model_is_unset
    THEN [exc |-> "ok", value |-> self_llm_model, lo |-> "none",
          self_bentomodel |-> self_bentomodel, self_kwargs |-> self_kwargs,
          resolutions |-> resolutions, imports |-> imports, store |-> store,
          loads |-> loads, self_llm_model |-> self_llm_model]
    ELSE model_load(bentomodel(io), lo)

\* The property model, lines 391-397.
get_model(io, lo) ==
    /\ CanCall
    /\ \E m \in {model_get(io, lo)} :
       /\ self_bentomodel' = m.self_bentomodel
       /\ self_kwargs' = m.self_kwargs
       /\ resolutions' = m.resolutions
       /\ imports' = m.imports
       /\ store' = m.store
       /\ loads' = m.loads
       /\ self_llm_model' = m.self_llm_model
       /\ last' = [op |-> "model", exc |-> m.exc, value |-> m.value, lo |-> m.lo]
    /\ ncalls' = ncalls + 1
    /\ UNCHANGED <<threads, constructed, cls, self_pretrained, self_args, self_llm_tokenizer,
                   self_dict, caller_models, init_kwargs>>

\* Line 402: the tokenizer is read off the artifact only while none is cached.
tokenizer_is_unset == self_llm_tokenizer = None

\* A variant that never raises the KeyError.
has_tokenizer_always(artifact) == TRUE

\* Lines 404-405: custom_objects["tokenizer"] raises KeyError when the key is absent.
has_tokenizer(artifact) == "tokenizer" \in artifact.custom_objects

\* The property tokenizer, lines 399-412.
get_tokenizer(io) ==
    /\ CanCall
    /\ IF ~tokenizer_is_unset
       THEN /\ last' = [op |-> "tokenizer", exc |-> "ok", value |-> self_llm_tokenizer]
            /\ UNCHANGED <<self_bentomodel, self_kwargs, resolutions, imports, store,
                           self_llm_tokenizer>>
       ELSE LET r == bentomodel(io)
                exc == IF r.exc # "ok" THEN r.exc
                       ELSE IF has_tokenizer(Val(r.value)) THEN "ok" ELSE "OpenLLMException"
                tok == IF exc = "ok" THEN Some([tokenizer_of |-> Val(r.value).tag]) ELSE None
            IN  /\ self_bentomodel' = r.self_bentomodel
                /\ self_kwargs' = r.self_kwargs
                /\ resolutions' = r.resolutions
                /\ imports' = r.imports
                /\ store' = r.store
                /\ self_llm_tokenizer' = tok
                /\ last' = [op |-> "tokenizer", exc |-> exc, value |-> tok]
    /\ ncalls' = ncalls + 1
    /\ UNCHANGED <<threads, constructed, cls, self_pretrained, self_args, self_llm_model,
                   self_dict, caller_models, loads, init_kwargs>>

-----------------------------------------------------------------------------
\* LLM.to_runner

\* openllm._configuration.ModelSignature: a method's contract. from_dict fills the
\* fields a ModelSignatureDict leaves out with the signature's own defaults.
SignatureFields == {"batchable", "batch_dim", "input_spec", "output_spec"}

SignatureDefaults ==
    [batchable |-> Some(FALSE), batch_dim |-> Some("(0, 0)"), input_spec |-> None,
     output_spec |-> None]

\* A ModelSignature object; a ModelSignatureDict is the bare function of its keys.
Signature(fields) == [class |-> "ModelSignature", fields |-> fields]

IsSignature(x) == "class" \in DOMAIN x

ModelSignature_from_dict(d) ==
    Signature([f \in SignatureFields |-> IF f \in DOMAIN d THEN d[f] ELSE SignatureDefaults[f]])

\* ModelSignature.convert_signatures_dict: every entry as a ModelSignature.
convert_signatures_dict(method_configs) ==
    [m \in DOMAIN method_configs |->
        IF IsSignature(method_configs[m]) THEN method_configs[m]
        ELSE ModelSignature_from_dict(method_configs[m])]

\* cattr.unstructure on a dict of signatures or signature dicts: a ModelSignature
\* becomes the dict of its fields, a dict stays as the caller wrote it.
unstructure(method_configs) ==
    [m \in DOMAIN method_configs |->
        IF IsSignature(method_configs[m]) THEN method_configs[m].fields
        ELSE method_configs[m]]

\* dict.get(key, default)
DictGet(d, k, default) == IF k \in DOMAIN d THEN d[k] ELSE default

\* Lines 464-478: what a method of the runnable declares, read off its signature.
runnable_method(sig) ==
    [batchable |-> sig.fields.batchable, batch_dim |-> sig.fields.batch_dim,
     input_spec |-> sig.fields.input_spec, output_spec |-> sig.fields.output_spec]

\* Lines 450-458: the signatures the runnable declares and the method_configs
\* handed to bentoml.Runner, for the caller's method_configs (None when not given).
runner_signatures(method_configs) ==
    LET generate_sig == ModelSignature_from_dict([batchable |-> Some(FALSE)])
        generate_iterator_sig == ModelSignature_from_dict([batchable |-> Some(TRUE)])
    IN  IF method_configs = None
        THEN [generate_sig |-> generate_sig,
              generate_iterator_sig |-> generate_iterator_sig,
              method_configs |-> [generate |-> generate_sig,
                                  generate_iterator |-> generate_iterator_sig]]
        ELSE [generate_sig |->
                  DictGet(convert_signatures_dict(Val(method_configs)), "generate", generate_sig),
              generate_iterator_sig |->
                  DictGet(convert_signatures_dict(Val(method_configs)), "generate_iterator",
                          generate_iterator_sig),
              method_configs |-> Val(method_configs)]

\* The ModelSignatureDicts a caller may give for one method.
CallerSignatureDicts ==
    {[batchable |-> Some(TRUE)], [batchable |-> Some(FALSE)], [batch_dim |-> Some("(1, 1)")]}

\* The method_configs a caller may pass: None, or a dict naming any of the methods.
CallerMethodConfigs ==
    {None} \cup
    { Some(mc) : mc \in UNION { [D -> CallerSignatureDicts] :
                                D \in SUBSET {"generate", "generate_iterator"} } }

\* LLM.to_runner(name, models, ..., method_configs), lines 414-492. `own_list` says
\* whether the caller passes its list object caller_models as `models`.
to_runner(name, own_list, method_configs, io) ==
    /\ CanCall
    /\ LET runner_name == IF name = None THEN Some(<<"llm", cls.name, "runner">>) ELSE name
           models == IF own_list THEN caller_models ELSE <<>>
           r == bentomodel(io)
           appended == IF r.exc = "ok" THEN Append(models, Val(r.value)) ELSE models
           sigs == runner_signatures(method_configs)
           runner == [name |-> Val(runner_name),
                      models |-> appended,
                      runnable |-> [generate |-> runnable_method(sigs.generate_sig),
                                    generate_iterator |->
                                        runnable_method(sigs.generate_iterator_sig)],
                      method_configs |-> unstructure(sigs.method_configs),
                      scheduling_strategy |-> "DefaultStrategy"]
       IN  /\ self_bentomodel' = r.self_bentomodel
           /\ self_kwargs' = r.self_kwargs
           /\ resolutions' = r.resolutions
           /\ imports' = r.imports
           /\ store' = r.store
           /\ caller_models' = IF own_list THEN appended ELSE caller_models
           /\ last' = [op |-> "to_runner", exc |-> r.exc,
                       value |-> IF r.exc = "ok" THEN Some(runner) ELSE None,
                       method_configs |-> method_configs, own_list |-> own_list,
                       models_before |-> caller_models, before |-> Fields]
    /\ ncalls' = ncalls + 1
    /\ UNCHANGED <<threads, constructed, cls, self_pretrained, self_args, self_llm_model,
                   self_llm_tokenizer, self_dict, loads, init_kwargs>>

-----------------------------------------------------------------------------
\* LLM.__setattr__

\* A variant of the namespace that leaves import_kwargs writable.
reserved_namespace_short ==
    {"default_model", "variants", "config_class", "model", "tokenizer"}

\* Lines 149-156.
reserved_namespace ==
    {"default_model", "variants", "config_class", "model", "tokenizer", "import_kwargs"}

\* The properties LLM defines with no setter (lines 241-248, 335-336, 387-388):
\* object.__setattr__ raises AttributeError for them.
read_only_properties == {"llm_type", "identifying_params", "_bentomodel", "tag"}

\* Attribute names a caller may assign to, and the values assigned.
AssignedNames ==
    {"default_model", "variants", "config_class", "model", "tokenizer", "import_kwargs",
     "llm_type", "identifying_params", "_bentomodel", "tag",
     "history", "__bentomodel__", "__llm_model__"}

AssignedValues(attr) == IF attr = "history" THEN {Some("h1"), Some("h2")} ELSE {None}

\* Line 231: the guard of the ForbiddenAttributeError.
is_reserved(attr) == attr \in reserved_namespace

\* Lines 231-238: what an assignment to `attr` raises.
setattr_outcome(attr) ==
    IF is_reserved(attr) THEN "ForbiddenAttributeError"
    ELSE IF attr \in read_only_properties THEN "AttributeError" ELSE "ok"

\* LLM.__setattr__(attr, value), lines 230-238.
setattr(attr, value) ==
    /\ CanCall
    /\ LET exc == setattr_outcome(attr)
       IN  /\ last' = [op |-> "__setattr__", exc |-> exc, attr |-> attr, value |-> value,
                       before |-> Fields]
           /\ self_bentomodel' =
                  IF exc = "ok" /\ attr = "__bentomodel__" THEN value ELSE self_bentomodel
           /\ self_llm_model' =
                  IF exc = "ok" /\ attr = "__llm_model__" THEN value ELSE self_llm_model
           /\ self_dict' =
                  IF exc = "ok" /\ attr \notin {"__bentomodel__", "__llm_model__"}
                  THEN DictMerge(self_dict, attr :> value) ELSE self_dict
    /\ ncalls' = ncalls + 1
    /\ UNCHANGED <<threads, constructed, cls, self_pretrained, self_args, self_kwargs,
                   self_llm_tokenizer, store, caller_models, resolutions, imports, loads,
                   init_kwargs>>

-----------------------------------------------------------------------------
\* ChatGLM (models/chatglm/modeling_chatglm.py)

\* ChatGLM.model_post_init, lines 49-50: self.history = [].
ChatGLM_model_post_init ==
    /\ cls.name = "ChatGLM"
    /\ setattr("history", <<>>)

\* What the backend's generation and decoding give for a prompt.
Response(prompt) == <<"response to", prompt>>

\* ChatGLM.generate(prompt, ...), lines 65-116. `cuda` is torch.cuda.is_available(),
\* `darwin` is platform.system() == "Darwin". Each branch of lines 77-83 starts with
\* an assignment self.model = self.model.<conversion>(): the property model is read,
\* then __setattr__("model", ...) runs. Lines 85-116 follow only if that returns.
ChatGLM_generate(prompt, cuda, use_half_precision, darwin, retain_history, io, lo) ==
    /\ CanCall
    /\ cls.name = "ChatGLM"
    /\ \E m \in {model_get(io, lo)} :
       LET assigned == IF m.exc # "ok" THEN m.exc ELSE setattr_outcome("model")
           has_history == "history" \in DOMAIN self_dict
           tokenizer_exc ==
               IF ~tokenizer_is_unset \/ has_tokenizer(Val(m.self_bentomodel))
               THEN "ok" ELSE "OpenLLMException"
           exc == IF assigned # "ok" THEN assigned
                  ELSE IF ~has_history THEN "AttributeError"
                  ELSE tokenizer_exc
           history == IF exc = "ok" /\ retain_history
                      THEN Append(self_dict["history"], <<prompt, Response(prompt)>>)
                      ELSE IF has_history THEN self_dict["history"] ELSE <<>>
       IN  /\ self_bentomodel' = m.self_bentomodel
           /\ self_kwargs' = m.self_kwargs
           /\ resolutions' = m.resolutions
           /\ imports' = m.imports
           /\ store' = m.store
           /\ loads' = m.loads
           /\ self_llm_model' = m.self_llm_model
           /\ self_llm_tokenizer' =
                  IF exc = "ok" /\ tokenizer_is_unset
                  THEN Some([tokenizer_of |-> Val(m.self_bentomodel).tag])
                  ELSE self_llm_tokenizer
           /\ self_dict' =
                  IF assigned = "ok"
                  THEN DictMerge(DictMerge(self_dict, "model" :> m.value),
                                 IF has_history THEN "history" :> history ELSE EmptyDict)
                  ELSE self_dict
           /\ last' = [op |-> "generate", exc |-> exc,
                       value |-> IF exc = "ok" THEN Some(history) ELSE None,
                       prompt |-> prompt, retain_history |-> retain_history,
                       model_exc |-> m.exc,
                       has_tokenizer |-> m.exc = "ok" /\ tokenizer_exc = "ok",
                       history_before |-> IF has_history THEN Some(self_dict["history"])
                                          ELSE None,
                       generated |-> exc = "ok"]
    /\ ncalls' = ncalls + 1
    /\ UNCHANGED <<threads, constructed, cls, self_pretrained, self_args, caller_models,
                   init_kwargs>>

-----------------------------------------------------------------------------
\* _bentomodel and model as threads run them: one step per test, call and
\* assignment of lines 335-385 and 391-397. Nothing in either property takes a lock.

\* Thread u stands between the test of line 337 and the assignment of __bentomodel__.
InArtifactBody(u) == threads[u].pc \in {"tags", "lookup", "import", "store_artifact"}

\* Thread u stands between the test of line 394 and the assignment of __llm_model__.
InModelBody(u) ==
    /\ threads[u].op = "model"
    /\ threads[u].pc \in {"check_artifact", "tags", "lookup", "import", "store_artifact",
                          "return_artifact", "load", "store_model"}

\* The thread returns from (or raises out of) the accessor it called.
Finished(t, exc, value) ==
    [threads[t] EXCEPT !.pc = "idle", !.exc = exc, !.returned = value]

\* A thread calls llm._bentomodel or llm.model.
thread_call(t, op) ==
    /\ CanCall
    /\ threads[t].pc = "idle"
    /\ threads' = [threads EXCEPT ![t] =
                      [IdleThread EXCEPT !.pc = IF op = "model" THEN "check_model"
                                               ELSE "check_artifact",
                                         !.op = op,
                                         !.raced_artifact = threads[t].raced_artifact,
                                         !.raced_model = threads[t].raced_model,
                                         !.nloaded = threads[t].nloaded]]
    /\ ncalls' = ncalls + 1
    /\ UNCHANGED <<constructed, cls, self_pretrained, self_args, self_kwargs, self_bentomodel,
                   self_llm_model, self_llm_tokenizer, self_dict, store, caller_models,
                   resolutions, imports, loads, init_kwargs, last>>

\* Line 394: `if self.__llm_model__ is None`, else line 397.
thread_check_model(t) ==
    /\ threads[t].pc = "check_model"
    /\ threads' = [threads EXCEPT ![t] =
                      IF model_is_unset
                      THEN [@ EXCEPT !.pc = "check_artifact",
                                     !.raced_model =
                                         @ \/ \E u \in Threads \ {t} : InModelBody(u)]
                      ELSE Finished(t, "ok", self_llm_model)]
    /\ UNCHANGED <<constructed, cls, self_pretrained, self_args, self_kwargs, self_bentomodel,
                   self_llm_model, self_llm_tokenizer, self_dict, store, caller_models,
                   resolutions, imports, loads, init_kwargs, last, ncalls>>

\* Line 337: `if self.__bentomodel__ is None`, else line 385.
thread_check_artifact(t) ==
    /\ threads[t].pc = "check_artifact"
    /\ threads' = [threads EXCEPT ![t] =
                      IF bentomodel_is_unset
                      THEN [@ EXCEPT !.pc = "tags",
                                     !.raced_artifact =
                                         @ \/ \E u \in Threads \ {t} : InArtifactBody(u)]
                      ELSE [@ EXCEPT !.pc = "return_artifact"]]
    /\ UNCHANGED <<constructed, cls, self_pretrained, self_args, self_kwargs, self_bentomodel,
                   self_llm_model, self_llm_tokenizer, self_dict, store, caller_models,
                   resolutions, imports, loads, init_kwargs, last, ncalls>>

\* Lines 338-356: the pop out of self._kwargs, the tag and the import arguments.
thread_tags(t) ==
    /\ threads[t].pc = "tags"
    /\ LET trust_remote_code ==
               DictPopValue(self_kwargs, K_trust_remote_code, cls.trust_remote_code)
           kwargs_left == DictWithout(self_kwargs, K_trust_remote_code)
           gt == generate_tags(self_pretrained, cls.implementation, trust_remote_code,
                               kwargs_left)
       IN  /\ self_kwargs' = kwargs_left
           /\ threads' = [threads EXCEPT ![t] =
                             [@ EXCEPT !.pc = "lookup",
                                       !.trust_remote_code = trust_remote_code,
                                       !.tag = Some(gt.tag),
                                       !.ia = Some(import_arguments(gt.kwds,
                                                                    cls.import_kwargs))]]
    /\ UNCHANGED <<constructed, cls, self_pretrained, self_args, self_bentomodel,
                   self_llm_model, self_llm_tokenizer, self_dict, store, caller_models,
                   resolutions, imports, loads, init_kwargs, last, ncalls>>

\* Lines 358-360: self.__bentomodel__ = bentoml.transformers.get(tag), or its handler.
thread_lookup(t) ==
    /\ threads[t].pc = "lookup"
    /\ LET found == store_get(Val(threads[t].tag)) IN
       IF lookup_missed(found)
       THEN /\ threads' = [threads EXCEPT ![t] = [@ EXCEPT !.pc = "import"]]
            /\ UNCHANGED self_bentomodel
       ELSE /\ self_bentomodel' = Some(CHOOSE a \in found : TRUE)
            /\ threads' = [threads EXCEPT ![t] = [@ EXCEPT !.pc = "return_artifact"]]
    /\ UNCHANGED <<constructed, cls, self_pretrained, self_args, self_kwargs,
                   self_llm_model, self_llm_tokenizer, self_dict, store, caller_models,
                   resolutions, imports, loads, init_kwargs, last, ncalls>>

\* Lines 364-384: the call of the import step, which saves the artifact or raises.
thread_import(t, io) ==
    /\ threads[t].pc = "import"
    /\ LET imp == call_import(Val(threads[t].tag), threads[t].trust_remote_code,
                              Val(threads[t].ia), io)
       IN  /\ imports' = Append(imports, imp)
           /\ store' = store \cup imp.saved
           /\ threads' = [threads EXCEPT ![t] =
                             IF imp.exc = "ok"
                             THEN [@ EXCEPT !.pc = "store_artifact",
                                            !.artifact = Some(CHOOSE a \in imp.saved : TRUE)]
                             ELSE Finished(t, imp.exc, None)]
    /\ UNCHANGED <<constructed, cls, self_pretrained, self_args, self_kwargs, self_bentomodel,
                   self_llm_model, self_llm_tokenizer, self_dict, caller_models,
                   resolutions, loads, init_kwargs, last, ncalls>>

\* Lines 366 and 376: the assignment of the import's result to self.__bentomodel__.
thread_store_artifact(t) ==
    /\ threads[t].pc = "store_artifact"
    /\ self_bentomodel' = threads[t].artifact
    /\ threads' = [threads EXCEPT ![t] = [@ EXCEPT !.pc = "return_artifact"]]
    /\ UNCHANGED <<constructed, cls, self_pretrained, self_args, self_kwargs,
                   self_llm_model, self_llm_tokenizer, self_dict, store, caller_models,
                   resolutions, imports, loads, init_kwargs, last, ncalls>>

\* Line 385: `return self.__bentomodel__`, to the caller or to line 396.
thread_return_artifact(t) ==
    /\ threads[t].pc = "return_artifact"
    /\ threads' = [threads EXCEPT ![t] =
                      IF threads[t].op = "model"
                      THEN [@ EXCEPT !.pc = "load", !.artifact = self_bentomodel]
                      ELSE Finished(t, "ok", self_bentomodel)]
    /\ UNCHANGED <<constructed, cls, self_pretrained, self_args, self_kwargs, self_bentomodel,
                   self_llm_model, self_llm_tokenizer, self_dict, store, caller_models,
                   resolutions, imports, loads, init_kwargs, last, ncalls>>

\* Line 396: the call self._bentomodel.load_model(*self._args, **self._kwargs).
thread_load(t, lo) ==
    /\ threads[t].pc = "load"
    /\ LET la == load_arguments(self_args, self_kwargs)
           call == [artifact |-> threads[t].artifact, args |-> la.args, kwargs |-> la.kwargs]
       IN  /\ loads' = Append(loads, call)
           /\ threads' = [threads EXCEPT ![t] =
                             IF lo = "raise"
                             THEN Finished(t, "LoadError", None)
                             ELSE [@ EXCEPT !.pc = "store_model",
                                            !.model = Some([loaded |-> call]),
                                            !.nloaded = @ + 1]]
    /\ UNCHANGED <<constructed, cls, self_pretrained, self_args, self_kwargs, self_bentomodel,
                   self_llm_model, self_llm_tokenizer, self_dict, store, caller_models,
                   resolutions, imports, init_kwargs, last, ncalls>>

\* Line 396: the assignment of the loaded model to self.__llm_model__.
thread_store_model(t) ==
    /\ threads[t].pc = "store_model"
    /\ self_llm_model' = threads[t].model
    /\ threads' = [threads EXCEPT ![t] = [@ EXCEPT !.pc = "return_model"]]
    /\ UNCHANGED <<constructed, cls, self_pretrained, self_args, self_kwargs, self_bentomodel,
                   self_llm_tokenizer, self_dict, store, caller_models,
                   resolutions, imports, loads, init_kwargs, last, ncalls>>

\* Line 397: `return self.__llm_model__`.
thread_return_model(t) ==
    /\ threads[t].pc = "return_model"
    /\ threads' = [threads EXCEPT ![t] = Finished(t, "ok", self_llm_model)]
    /\ UNCHANGED <<constructed, cls, self_pretrained, self_args, self_kwargs, self_bentomodel,
                   self_llm_model, self_llm_tokenizer, self_dict, store, caller_models,
                   resolutions, imports, loads, init_kwargs, last, ncalls>>

-----------------------------------------------------------------------------
\* Another worker, built from the same descriptor, saves its artifact: the tag is
\* the one a first resolution of this descriptor computes.
ExternalSave(custom_objects) ==
    /\ constructed = "yes"
    /\ LET trust_remote_code ==
               DictPopValue(init_kwargs, K_trust_remote_code, cls.trust_remote_code)
           tag == generate_tags(self_pretrained, cls.implementation, trust_remote_code,
                                DictWithout(init_kwargs, K_trust_remote_code)).tag
       IN  /\ store_get(tag) = {}
           /\ store' = store \cup {[tag |-> tag, custom_objects |-> custom_objects]}
    /\ UNCHANGED <<threads, constructed, cls, self_pretrained, self_args, self_kwargs, self_bentomodel,
                   self_llm_model, self_llm_tokenizer, self_dict, caller_models,
                   resolutions, imports, loads, init_kwargs, last, ncalls>>

Artifact == \E io \in ImportChoices : get_bentomodel(io)

Tag == \E io \in ImportChoices : get_tag(io)

Seed == \E c \in SUBSET {"tokenizer"} : ExternalSave(c)

Model == \E io \in ImportChoices, lo \in LoadChoices : get_model(io, lo)

Tokenizer == \E io \in ImportChoices : get_tokenizer(io)

Runner ==
    \E name \in {None}, own_list \in BOOLEAN,
       method_configs \in CallerMethodConfigs, io \in ImportChoices :
        to_runner(name, own_list, method_configs, io)

SetAttr == \E attr \in AssignedNames : \E value \in AssignedValues(attr) : setattr(attr, value)

Next == Construct \/ Artifact \/ Tag \/ Model \/ Tokenizer \/ Seed


Spec == Init /\ [][Next]_vars

\* The specification of runner construction.
NextRunner == ConstructPlain \/ Artifact \/ Runner \/ Seed

SpecRunner == Init /\ [][NextRunner]_vars

\* The specification of attribute assignment on a handle in any state.
NextAttr == ConstructPlain \/ Artifact \/ Model \/ Tokenizer \/ SetAttr \/ Seed

SpecAttr == Init /\ [][NextAttr]_vars

\* The specification of construction alone.
NextInit == ConstructAny

SpecInit == Init /\ [][NextInit]_vars

\* The specification of two threads sharing one handle.
ThreadCall == \E t \in Threads, op \in {"_bentomodel", "model"} : thread_call(t, op)

ThreadImport ==
    \E t \in Threads :
        \E io \in (IF cls.has_import_model THEN ImportOutcomes ELSE {"ok", "raise"}) :
            thread_import(t, io)

ThreadLoad == \E t \in Threads, lo \in LoadOutcomes : thread_load(t, lo)

ThreadStep ==
    \E t \in Threads :
        \/ thread_check_model(t)
        \/ thread_check_artifact(t)
        \/ thread_tags(t)
        \/ thread_lookup(t)
        \/ thread_store_artifact(t)
        \/ thread_return_artifact(t)
        \/ thread_store_model(t)
        \/ thread_return_model(t)

NextThreads == ConstructPlain \/ ThreadCall \/ ThreadStep \/ ThreadImport \/ ThreadLoad

SpecThreads == Init /\ [][NextThreads]_vars

\* The specification of a ChatGLM handle: the accessors and generate.
PostInit == ChatGLM_model_post_init

Generate ==
    \E prompt \in {"hi"}, cuda \in BOOLEAN, use_half_precision \in BOOLEAN,
       darwin \in BOOLEAN, retain_history \in BOOLEAN,
       io \in ImportChoices, lo \in LoadChoices :
        ChatGLM_generate(prompt, cuda, use_half_precision, darwin, retain_history, io, lo)

NextChatGLM == ConstructPlain \/ PostInit \/ Artifact \/ Model \/ Tokenizer \/ Generate \/ Seed

SpecChatGLM == Init /\ [][NextChatGLM]_vars

-----------------------------------------------------------------------------
\* Properties

Accessors == {"_bentomodel", "tag", "model", "tokenizer"}

\* The saves the handle's imports made.
Saves == SelectSeq(imports, LAMBDA i : i.saved # {})

\* C1 (memoization, write-once): when the first resolution on a handle succeeds, the
\* store lookup has run exactly once however many accessor calls follow, with no
\* import on a hit and exactly one import and one save on a miss; and a cached
\* artifact, model or tokenizer, once populated, keeps its value in every step.
C1_Memoization ==
    /\ [](resolutions # <<>> /\ resolutions[1].exc = "ok"
            => /\ Len(resolutions) = 1
               /\ Len(imports) = (IF resolutions[1].hit THEN 0 ELSE 1)
               /\ Len(Saves) = Len(imports))
    /\ [][/\ self_bentomodel # None => self_bentomodel' = self_bentomodel
          /\ self_llm_model # None => self_llm_model' = self_llm_model
          /\ self_llm_tokenizer # None => self_llm_tokenizer' = self_llm_tokenizer]_vars

\* C1's case: three accessor calls after a store miss, everything cached, one import.
C1_Witness ==
    /\ ncalls = 3
    /\ Len(resolutions) = 1 /\ ~resolutions[1].hit
    /\ Len(imports) = 1 /\ Len(Saves) = 1
    /\ self_bentomodel # None /\ self_llm_model # None /\ self_llm_tokenizer # None

\* C2 as claimed (failure is terminal): once the first resolution has failed, no
\* further store lookup or import runs on the handle and every accessor call fails.
C2_FailureIsTerminal ==
    resolutions # <<>> /\ resolutions[1].exc # "ok"
        => /\ Len(resolutions) = 1
           /\ Len(imports) = 1
           /\ last.op \in Accessors => last.exc # "ok"

\* C2 as amended (a failure is surfaced and not remembered): while nothing is cached,
\* every accessor call made so far ran its own store lookup, missed, made its own
\* import attempt and surfaced that attempt's exception, leaving the caches empty.
C2_FailureNotRemembered ==
    constructed = "yes" /\ self_bentomodel = None
        => /\ Len(resolutions) = ncalls
           /\ Len(imports) = ncalls
           /\ \A i \in 1..Len(resolutions) :
                /\ ~resolutions[i].hit
                /\ resolutions[i].exc # "ok"
                /\ imports[i].exc = resolutions[i].exc
           /\ ncalls > 0 => last.op \in Accessors /\ last.exc = resolutions[ncalls].exc
           /\ self_llm_model = None /\ self_llm_tokenizer = None

\* C2's case: two failed resolutions in a row on one handle.
C2_Witness ==
    /\ self_bentomodel = None
    /\ Len(resolutions) = 2 /\ Len(imports) = 2
    /\ resolutions[1].exc # "ok" /\ resolutions[2].exc # "ok"

\* C3 (cache hit path): a run of the resolution whose store lookup succeeds calls no
\* import (default or override), saves nothing, and caches the handle it found.
C3_CacheHit ==
    \A i \in 1..Len(resolutions) :
        resolutions[i].hit
            => /\ ~resolutions[i].imported
               /\ resolutions[i].saved = {}
               /\ resolutions[i].exc = "ok"
               /\ resolutions[i].cached # None
               /\ Val(resolutions[i].cached) \in resolutions[i].found
               /\ self_bentomodel = resolutions[i].cached
               /\ i = Len(resolutions)
               /\ Len(imports) = i - 1

\* C3's case: a subclass with an import_model override resolves by a store hit.
C3_Witness ==
    /\ cls.has_import_model
    /\ resolutions # <<>> /\ resolutions[Len(resolutions)].hit
    /\ self_bentomodel # None
    /\ imports = <<>>

\* The names the forbidden-mutation contract lists.
ContractReserved ==
    {"default_model", "variants", "config_class", "model", "tokenizer", "import_kwargs"}

\* The names of the properties LLM declares without a setter, outside the contract's list.
SetterlessProperties == {"llm_type", "identifying_params", "_bentomodel", "tag"}

\* What a successful assignment of last.value to last.attr leaves behind.
AssignmentStored ==
    /\ self_bentomodel = (IF last.attr = "__bentomodel__" THEN last.value
                          ELSE last.before.bentomodel)
    /\ self_llm_model = (IF last.attr = "__llm_model__" THEN last.value
                         ELSE last.before.llm_model)
    /\ last.attr \notin {"__bentomodel__", "__llm_model__"}
          => /\ last.attr \in DOMAIN self_dict
             /\ self_dict[last.attr] = last.value
             /\ \A k \in DOMAIN last.before.dict :
                    k # last.attr => k \in DOMAIN self_dict /\ self_dict[k] = last.before.dict[k]
    /\ last.attr \in {"__bentomodel__", "__llm_model__"} => self_dict = last.before.dict
    /\ self_pretrained = last.before.pretrained
    /\ self_args = last.before.args
    /\ self_kwargs = last.before.kwargs
    /\ self_llm_tokenizer = last.before.llm_tokenizer

\* C4 as claimed (forbidden mutation): an assignment to a reserved name raises the
\* forbidden-attribute error and changes no field; an assignment to any other name
\* succeeds.
C4_OtherNamesSucceed ==
    last.op = "__setattr__"
        => /\ last.attr \in ContractReserved
                => last.exc = "ForbiddenAttributeError" /\ Fields = last.before
           /\ last.attr \notin ContractReserved => last.exc = "ok"

\* C4 as amended: an assignment to a reserved name raises the forbidden-attribute
\* error and changes no field, whatever is cached; an assignment to the name of a
\* property declared without a setter raises AttributeError and changes no field;
\* an assignment to any other name succeeds and stores the value.
C4_ForbiddenMutation ==
    last.op = "__setattr__"
        => /\ last.attr \in ContractReserved
                => last.exc = "ForbiddenAttributeError" /\ Fields = last.before
           /\ last.attr \in SetterlessProperties
                => last.exc = "AttributeError" /\ Fields = last.before
           /\ last.attr \notin ContractReserved \cup SetterlessProperties
                => last.exc = "ok" /\ AssignmentStored

\* C4's case: `model` is assigned on a handle whose artifact and model are cached.
C4_Witness ==
    /\ last.op = "__setattr__" /\ last.attr = "model"
    /\ last.exc = "ForbiddenAttributeError"
    /\ self_bentomodel # None /\ self_llm_model # None

\* The cached artifact carries no "tokenizer" custom object.
ArtifactLacksTokenizer ==
    self_bentomodel # None /\ "tokenizer" \notin Val(self_bentomodel).custom_objects

\* C5 (missing tokenizer): on a handle whose resolved artifact has no "tokenizer"
\* custom object, every tokenizer() call raises the missing-tokenizer error and the
\* cached tokenizer stays empty, while a model() call, whether made before or after,
\* returns the model whenever the artifact's load returns, and memoizes it.
C5_MissingTokenizer ==
    ArtifactLacksTokenizer
        => /\ self_llm_tokenizer = None
           /\ last.op = "tokenizer" => last.exc = "OpenLLMException" /\ last.value = None
           /\ last.op = "model" /\ last.lo # "raise"
                => /\ last.exc = "ok"
                   /\ self_llm_model # None
                   /\ last.value = self_llm_model
           /\ self_llm_model # None
                => Len(SelectSeq(loads, LAMBDA c : c.artifact = self_bentomodel)) >= 1

\* C5's case: tokenizer() fails on a handle whose model() had succeeded before.
C5_Witness ==
    /\ ArtifactLacksTokenizer
    /\ last.op = "tokenizer" /\ last.exc = "OpenLLMException"
    /\ self_llm_model # None /\ self_llm_tokenizer = None

\* The descriptor's keyword_params: the keyword arguments given at construction,
\* the trust flag being a field of its own.
KeywordParams == DictWithout(init_kwargs, K_trust_remote_code)

\* The class-level import_kwargs, empty when the class declares none.
ClassDefaults == IF cls.import_kwargs = None THEN EmptyDict ELSE Val(cls.import_kwargs)

Prefixed(d) == {k \in DOMAIN d : k[1] = "_tokenizer_"}
Unprefixed(d) == {k \in DOMAIN d : k[1] # "_tokenizer_"}
WithPrefix(k) == <<"_tokenizer_">> \o k

\* C6 as claimed (partition correctness): every import call is handed model
\* parameters that are exactly the unprefixed keyword_params, values unchanged, and
\* tokenizer parameters that are exactly the prefixed ones with the prefix stripped,
\* a key given both ways keeping the tokenizer-scoped value on the tokenizer side.
C6_PartitionExact ==
    \A i \in 1..Len(imports) :
        /\ DOMAIN imports[i].kwds = Unprefixed(KeywordParams)
        /\ \A k \in Unprefixed(KeywordParams) : imports[i].kwds[k] = KeywordParams[k]
        /\ DOMAIN imports[i].tokenizer_kwds = {Tail(k) : k \in Prefixed(KeywordParams)}
        /\ \A k \in Prefixed(KeywordParams) :
               imports[i].tokenizer_kwds[Tail(k)] = KeywordParams[k]

\* C6 as amended: the model parameters are the unprefixed keyword_params, values
\* unchanged, together with the unprefixed class-level import_kwargs the caller did
\* not give; the tokenizer parameters are the prefixed keyword_params with the prefix
\* stripped, together with the prefixed import_kwargs (stripped) the caller did not
\* give; a key given both as k and as _tokenizer_k keeps each value on its own side.
C6_PartitionWithDefaults ==
    \A i \in 1..Len(imports) :
        /\ DOMAIN imports[i].kwds = Unprefixed(KeywordParams) \cup Unprefixed(ClassDefaults)
        /\ \A k \in DOMAIN imports[i].kwds :
               imports[i].kwds[k] =
                   (IF k \in DOMAIN KeywordParams THEN KeywordParams[k] ELSE ClassDefaults[k])
        /\ DOMAIN imports[i].tokenizer_kwds =
               {Tail(k) : k \in Prefixed(KeywordParams) \cup Prefixed(ClassDefaults)}
        /\ \A k \in DOMAIN imports[i].tokenizer_kwds :
               imports[i].tokenizer_kwds[k] =
                   (IF WithPrefix(k) \in DOMAIN KeywordParams
                    THEN KeywordParams[WithPrefix(k)] ELSE ClassDefaults[WithPrefix(k)])

\* C6's case: an import for a class with import_kwargs, the caller giving the same
\* key both unprefixed and prefixed.
C6_Witness ==
    /\ imports # <<>>
    /\ cls.import_kwargs # None
    /\ K_revision \in DOMAIN init_kwargs /\ K_tokenizer_revision \in DOMAIN init_kwargs
    /\ imports[1].kwds[K_revision] = "rev"
    /\ imports[1].tokenizer_kwds[K_revision] = "tok_rev"
    /\ imports[1].kwds[K_device_map] = "cls_auto"

\* The trust flag of the descriptor: the caller's, else the family's configured one.
DescriptorTrust ==
    IF K_trust_remote_code \in DOMAIN init_kwargs THEN init_kwargs[K_trust_remote_code]
    ELSE cls.trust_remote_code

\* C7 (tag determinism): every run of the handle's tag computation passes the tag
\* generator the same inputs, those of the descriptor given at construction,
\* including the trust_remote_code value, and so yields the same tag.
C7_TagDeterminism ==
    \A i \in 1..Len(resolutions) :
        /\ resolutions[i].pretrained = self_pretrained
        /\ resolutions[i].prefix = cls.implementation
        /\ resolutions[i].attrs = KeywordParams
        /\ resolutions[i].trust_remote_code = DescriptorTrust
        /\ resolutions[i].tag = resolutions[1].tag

\* C8 as claimed (default fallback): the name stored is the explicit argument when
\* given, else the environment variable's value when it is set, else the family's
\* static default; with none of the three, construction fails and no handle exists.
C8_FallbackWhenSet ==
    last.op = "__init__"
        => IF last.pretrained # None
           THEN constructed = "yes" /\ self_pretrained = Val(last.pretrained)
           ELSE IF last.env # None
                THEN constructed = "yes" /\ self_pretrained = Val(last.env)
                ELSE IF cls.default_model # None
                     THEN constructed = "yes" /\ self_pretrained = Val(cls.default_model)
                     ELSE constructed = "failed" /\ last.exc = "AssertionError"

\* C8 as amended: the name stored is the explicit argument when given, else the
\* environment variable's value when it is set to a non-empty string, else the
\* family's static default; with none of the three, construction fails with the
\* assertion's error and no handle exists.
C8_DefaultFallback ==
    last.op = "__init__"
        => IF last.pretrained # None
           THEN constructed = "yes" /\ self_pretrained = Val(last.pretrained)
           ELSE IF last.env # None /\ Val(last.env) # ""
                THEN constructed = "yes" /\ self_pretrained = Val(last.env)
                ELSE IF cls.default_model # None
                     THEN constructed = "yes" /\ self_pretrained = Val(cls.default_model)
                     ELSE constructed = "failed" /\ last.exc = "AssertionError"

\* C8's case: no argument, the environment variable names the model.
C8_Witness ==
    /\ last.op = "__init__" /\ last.pretrained = None
    /\ last.env = Some("env/model-b")
    /\ constructed = "yes" /\ self_pretrained = "env/model-b"

\* C8's failing case: no argument, no override, no static default.
C8_WitnessNoDefault ==
    /\ last.op = "__init__" /\ last.pretrained = None /\ last.env = None
    /\ cls.default_model = None /\ constructed = "failed"

\* C9 (model() loads with the originally supplied parameters): every load_model
\* call gets the positional arguments and exactly the unprefixed keyword arguments
\* given at construction.
C9_LoadArguments ==
    \A i \in 1..Len(loads) :
        /\ loads[i].args = self_args
        /\ DOMAIN loads[i].kwargs = Unprefixed(init_kwargs)
        /\ \A k \in Unprefixed(init_kwargs) : loads[i].kwargs[k] = init_kwargs[k]

\* The contract the runner is to give a method: the caller's when the caller names
\* the method, else generate non-batchable and generate_iterator batchable.
ContractFields(d) ==
    [f \in {"batchable", "batch_dim", "input_spec", "output_spec"} |->
        IF f \in DOMAIN d THEN d[f]
        ELSE IF f = "batchable" THEN Some(FALSE)
        ELSE IF f = "batch_dim" THEN Some("(0, 0)") ELSE None]

ExpectedContract(m) ==
    IF last.method_configs # None /\ m \in DOMAIN Val(last.method_configs)
    THEN ContractFields(Val(last.method_configs)[m])
    ELSE ContractFields([batchable |-> Some(m = "generate_iterator")])

\* C10 (runner method contracts): after to_runner, each of generate and
\* generate_iterator carries its expected contract both in the runnable's method
\* declaration and in the method_configs recorded in the runner descriptor.
C10_MethodContracts ==
    last.op = "to_runner" /\ last.exc = "ok"
        => \A m \in {"generate", "generate_iterator"} :
              /\ Val(last.value).runnable[m] = ExpectedContract(m)
              /\ m \in DOMAIN Val(last.value).method_configs
              /\ ContractFields(Val(last.value).method_configs[m]) = ExpectedContract(m)

\* The part of C10 that the runnable's declarations satisfy.
C10_RunnableContracts ==
    last.op = "to_runner" /\ last.exc = "ok"
        => \A m \in {"generate", "generate_iterator"} :
              Val(last.value).runnable[m] = ExpectedContract(m)

\* C11 (to_runner and its frame): after a to_runner call the list the caller passed
\* as `models` has the contents it had before the call, and no field of the handle
\* other than the cached artifact has changed.
C11_CallerListUnchanged ==
    last.op = "to_runner"
        => /\ last.own_list => caller_models = last.models_before
           /\ [Fields EXCEPT !.bentomodel = None] = [last.before EXCEPT !.bentomodel = None]

\* A thread passed the test of line 337 (of line 394) while another thread stood
\* between that test and its assignment.
RacedArtifact == \E t \in Threads : threads[t].raced_artifact
RacedModel == \E t \in Threads : threads[t].raced_model

\* The number of load_model calls that returned.
Loaded == threads["t1"].nloaded + threads["t2"].nloaded

\* C12 (no mutual exclusion): on a handle shared by threads, a second import that
\* saves, or a second load that returns, happens only when a thread tested the
\* empty cache while another thread was between its own test and its assignment;
\* calls that do not overlap in this way make at most one. That the overlap is
\* possible, nothing guarding the test, is C12's case below.
C12_AtMostOneUnlessRaced ==
    /\ Len(Saves) > 1 => RacedArtifact
    /\ Loaded > 1 => RacedModel

\* C12's case: two threads called model() on a fresh handle whose tag the store
\* lacked, both returned, and the handle saw two imports that saved and two loads.
C12_Witness ==
    /\ \A t \in Threads : /\ threads[t].op = "model" /\ threads[t].pc = "idle"
                          /\ threads[t].exc = "ok" /\ threads[t].returned # None
    /\ ncalls = 2
    /\ Len(imports) = 2 /\ Len(Saves) = 2
    /\ imports[1].tag = imports[2].tag
    /\ Len(loads) = 2 /\ Loaded = 2

\* C13 (ChatGLM's import override conforms to the import contract): every import a
\* ChatGLM handle makes calls the override with the handle's name, tag, positional
\* arguments, tokenizer parameters, trust flag and model parameters; the call does
\* not fail because of those arguments; and when the backend loads, it returns an
\* artifact saved under that tag with a "tokenizer" custom object, which is cached.
C13_ImportOverrideConforms ==
    cls.name = "ChatGLM"
        => /\ \A i \in 1..Len(imports) :
                /\ imports[i].fn = "self.import_model"
                /\ imports[i].pretrained = self_pretrained
                /\ imports[i].args = self_args
                /\ imports[i].exc # "TypeError"
                /\ imports[i].backend # "raise"
                     => /\ imports[i].exc = "ok"
                        /\ imports[i].saved =
                               {[tag |-> imports[i].tag, custom_objects |-> {"tokenizer"}]}
           /\ \A i \in 1..Len(resolutions) :
                resolutions[i].imported /\ resolutions[i].exc = "ok"
                    => /\ resolutions[i].cached # None
                       /\ Val(resolutions[i].cached) \in resolutions[i].saved
                       /\ self_bentomodel = resolutions[i].cached

\* The part of C13 that the code satisfies: on a store miss the override, not the
\* default import, is called with the handle's name, its positional arguments and
\* the tag, tokenizer parameters and model parameters the resolution computed.
C13_OverrideCalled ==
    cls.name = "ChatGLM"
        => /\ \A i \in 1..Len(imports) :
                /\ imports[i].fn = "self.import_model"
                /\ imports[i].pretrained = self_pretrained
                /\ imports[i].args = self_args
           /\ Len(imports) = Len(SelectSeq(resolutions, LAMBDA r : r.imported))

\* C14 (ChatGLM.generate and the reserved names): a generate call on a handle whose
\* model and tokenizer resolve, and whose history is initialised, does not raise the
\* forbidden-attribute error, reaches generation, and returns the history, one
\* (prompt, response) pair longer when retain_history is set and unchanged otherwise.
C14_GenerateCompatible ==
    (last.op = "generate" /\ last.model_exc = "ok" /\ last.has_tokenizer
        /\ last.history_before # None)
        => /\ last.exc # "ForbiddenAttributeError"
           /\ last.generated
           /\ last.exc = "ok"
           /\ last.value = Some(self_dict["history"])
           /\ self_dict["history"] =
                  (IF last.retain_history
                   THEN Append(Val(last.history_before), <<last.prompt, Response(last.prompt)>>)
                   ELSE Val(last.history_before))

\* What generate does instead: whenever the model resolves, the call raises the
\* forbidden-attribute error before generation and leaves the history as it was.
C14_GenerateForbidden ==
    last.op = "generate" /\ last.model_exc = "ok"
        => /\ last.exc = "ForbiddenAttributeError"
           /\ ~last.generated
           /\ last.value = None
           /\ last.history_before # None => self_dict["history"] = Val(last.history_before)

====
